---- MODULE Spec2Model ----
(***************************************************************************)
(* Model of sshkey.js: generateSharedSSHKey(alias, provider), the shared   *)
(* SSH key / config provisioner.  The filesystem under the shared SSH      *)
(* directory is the state; file contents are strings, exactly as the code  *)
(* builds them, so String.prototype.includes is a real substring search.   *)
(***************************************************************************)
EXTENDS Integers, Sequences, FiniteSets, TLC

VARIABLES
    platform,    \* process.platform
    fs,          \* the shared SSH directory: [dir, keys, knownHosts, config]
    fs0,         \* fs as the first invocation found it
    before,      \* fs as it was when the last invocation started
    last,        \* what the last invocation did (exit status, log, writes)
    provisioned, \* the (alias, provider) pairs of the runs that exited 0, in order
    runs,        \* number of invocations so far
    procs        \* two invocations running at once: each one's position and locals

vars == <<platform, fs, fs0, before, last, provisioned, runs, procs>>

----------------------------------------------------------------------------
(* Bounds and inputs *)

\* invocations in a row when no I/O step throws
MaxRuns == 3

\* invocations in a row when I/O steps may throw
MaxRunsIO == 2

Aliases == {"foo", "foobar", "ci"}

Providers == {"github", "BitBucket", "gitlab", "constructor"}

Platforms == {"linux", "win32"}

\* process.argv after the script name: zero, one or two positional arguments
Argvs ==
    {<<>>} \cup {<<a>> : a \in Aliases} \cup {<<"", "github">>, <<"foo", "">>}
    \cup {<<a, p>> : a \in Aliases, p \in Providers}

----------------------------------------------------------------------------
(* JavaScript string helpers *)

UpperCaseLetters == "ABCDEFGHIJKLMNOPQRSTUVWXYZ"

LowerCaseLetters == "abcdefghijklmnopqrstuvwxyz"

CharLower(c) ==
    IF \E i \in 1..Len(UpperCaseLetters) : SubSeq(UpperCaseLetters, i, i) = c
    THEN LET i == CHOOSE j \in 1..Len(UpperCaseLetters) :
                      SubSeq(UpperCaseLetters, j, j) = c
         IN  SubSeq(LowerCaseLetters, i, i)
    ELSE c

RECURSIVE toLowerCase(_)
toLowerCase(s) ==
    IF s = "" THEN "" ELSE CharLower(SubSeq(s, 1, 1)) \o toLowerCase(Tail(s))

\* String.prototype.includes: raw substring containment
includes(hay, needle) ==
    LET n == Len(needle)
    IN  \E i \in 1..(Len(hay) - n + 1) : SubSeq(hay, i, i + n - 1) = needle

\* path.join of two segments: the separator is the platform's
pathJoin(plat, a, b) == a \o (IF plat = "win32" THEN "\\" ELSE "/") \o b

----------------------------------------------------------------------------
(* Arguments and the provider table *)

\* const [,, aliasArg, providerArg] = process.argv: a missing position is
\* undefined, modelled as <<>>; a present one as <<string>>
ArgAt(argv, i) == IF Len(argv) >= i THEN <<argv[i]>> ELSE <<>>

\* Falsy as a check for undefined alone
FalsyUndefinedOnly(x) == x = <<>>

\* !x for an argument: undefined and the empty string are falsy
Falsy(x) == x = <<>> \/ x[1] = ""

hostMap == [github |-> "github.com", bitbucket |-> "bitbucket.org"]

\* hostMap is an object literal, so a lookup that misses its own keys goes on
\* to Object.prototype.  Of its properties only these two have all-lower-case
\* names (reachable after toLowerCase); each is given as the text a template
\* literal renders it to.  Both values are truthy.
ObjectPrototype ==
    ("constructor" :> "function Object() { [native code] }")
    @@ ("__proto__" :> "[object Object]")

\* hostMap[providerNormalized]: <<>> is undefined
hostMapLookup(key) ==
    IF key \in DOMAIN hostMap THEN <<hostMap[key]>>
    ELSE IF key \in DOMAIN ObjectPrototype THEN <<ObjectPrototype[key]>>
    ELSE <<>>

----------------------------------------------------------------------------
(* Paths and fixed texts *)

baseDir(plat) == IF plat = "win32" THEN "D:\\klarion6.0\\ws" ELSE "/nfs/ws"

sharedSSHDir(plat) == pathJoin(plat, baseDir(plat), "shared_ssh")

keyName(providerNormalized, alias) ==
    "id_ed25519_" \o providerNormalized \o "_" \o alias

privateKeyPath(plat, providerNormalized, alias) ==
    pathJoin(plat, sharedSSHDir(plat), keyName(providerNormalized, alias))

publicKeyPath(plat, providerNormalized, alias) ==
    privateKeyPath(plat, providerNormalized, alias) \o ".pub"

configPath(plat) == pathJoin(plat, sharedSSHDir(plat), "config")

knownHostsPath(plat) == pathJoin(plat, sharedSSHDir(plat), "known_hosts")

trustedHosts ==
    << "github.com ssh-ed25519 AAAAC3NzaC1lZDI1NTE5AAAAIOMqqnkVzrm0SdG6UOoqKLsabgH5C9okWi0dh2l9GKJl",
       "bitbucket.org ssh-rsa AAAAB3NzaC1yc2EAAAADAQABAAABgQDQeJzhupRu0u0cdegZIa8e86EG2qOCsIsD1Xw0xSeiPDlCr7kq97NLmMbpKTX6Esc30NuoqEEHCuc7yWtwp8dI76EEEB1VqY9QJq6vk+aySyboD5QF61I/1WeTwu+deCbgKMGbUijeXhtfbxSxm6JwGrXrhBdofTsbKRUsrN1WoNgUa8uqN1Vx6WAJw1JHPhglEGGHea6QICwJOAr/6mrui/oB7pkaWKHj3z7d1IC4KWLtY47elvjbaTlkN04Kc/5LFEirorGYVbt15kAUlqGM65pk6ZBxtaO3+30LVlORZkxOh+LKL/BvbZ/iRNhItLqNyieoQj/uh/7Iv4uyH/cV/0b4WDSd3DptigWq84lJubb9t/DnZlrJazxyDCulTmKdOR7vs9gMTo+uoIrPSb8ScTtvw65+odKAlBj59dhnVp9zd7QUojOpXlL62Aw56U4oO+FALuevvMjiWeavKhJqlR7i5n9srYcrNV7ttmDw7kf/97P5zauIhxcjX+xHv4M=" >>

\* trustedHosts.join("\n") + "\n"
knownHostsContent == trustedHosts[1] \o "\n" \o trustedHosts[2] \o "\n"

\* the template literal shared by baseBlock and aliasBlock
hostBlock(pattern, hostName, keyPath, khPath) ==
    "\nHost " \o pattern
    \o "\n    HostName " \o hostName
    \o "\n    User git"
    \o "\n    IdentityFile " \o keyPath
    \o "\n    IdentitiesOnly yes"
    \o "\n    UserKnownHostsFile " \o khPath
    \o "\n    GlobalKnownHostsFile " \o khPath
    \o "\n"

baseBlock(hostName, keyPath, khPath) ==
    hostBlock(hostName, hostName, keyPath, khPath)

\* aliasBlock with the bare alias as its Host pattern
aliasBlockBareAlias(hostName, alias, keyPath, khPath) ==
    hostBlock(alias, hostName, keyPath, khPath)

aliasBlock(hostName, alias, keyPath, khPath) ==
    hostBlock(hostName \o "-" \o alias, hostName, keyPath, khPath)

----------------------------------------------------------------------------
(* The filesystem under the shared SSH directory *)

\* [dir]        whether the shared SSH directory exists
\* [keys]       key files by path (private and .pub)
\* [knownHosts] <<>> when the file is missing, else <<[content, mode]>>
\* [config]     <<>> when the file is missing, else <<content>>
NoFiles == [dir |-> FALSE, keys |-> <<>>, knownHosts |-> <<>>, config |-> <<>>]

\* fs.mkdirSync(sharedSSHDir, { recursive: true })
mkdirSync(f) == [f EXCEPT !.dir = TRUE]

\* keyExists looking for a file the key generation never writes
keyExistsWrongFile(f, path) == (path \o ".pem") \in DOMAIN f.keys

\* fs.existsSync(privateKeyPath)
keyExists(f, path) == path \in DOMAIN f.keys

\* ssh-keygen -t ed25519 -f <path> -C <alias> -N "": writes <path> and <path>.pub
sshKeygen(f, path, alias) ==
    LET key == [type |-> "ed25519", comment |-> alias, passphrase |-> ""]
    IN  [f EXCEPT !.keys = (path :> [key EXCEPT !.type = "ed25519 private"])
                           @@ ((path \o ".pub") :> [key EXCEPT !.type = "ed25519 public"])
                           @@ @]

\* knownHostsExists that never finds the file
knownHostsExistsNever(f) == FALSE

\* fs.existsSync(knownHostsPath)
knownHostsExists(f) == f.knownHosts # <<>>

\* fs.writeFileSync(knownHostsPath, data, { mode: 0o600 }): the mode is given
\* to a file the call creates; a file that is there keeps its own
writeKnownHosts(f, data) ==
    [f EXCEPT !.knownHosts =
        <<[content |-> data,
           mode |-> IF @ = <<>> THEN "0o600" ELSE @[1].mode]>>]

\* fs.existsSync(configPath) ? fs.readFileSync(configPath, "utf8") : ""
readConfig(f) == IF f.config # <<>> THEN f.config[1] ELSE ""

\* appendFileSync as a truncating write (writeFileSync)
appendFileSyncTruncates(f, data) == [f EXCEPT !.config = <<data>>]

\* fs.appendFileSync(configPath, data): creates the file when it is missing
appendFileSync(f, data) ==
    [f EXCEPT !.config = IF @ = <<>> THEN <<data>> ELSE <<@[1] \o data>>]

\* baseMissing comparing the whole file with the needle
baseMissingWholeFile(configContent, hostName) ==
    configContent # "Host " \o hostName

\* !configContent.includes(`Host ${hostName}`)
baseMissing(configContent, hostName) ==
    ~includes(configContent, "Host " \o hostName)

\* aliasMissing searching for the base needle
aliasMissingChecksBase(configContent, hostName, alias) ==
    ~includes(configContent, "Host " \o hostName)

\* !configContent.includes(`Host ${hostName}-${alias}`)
aliasMissing(configContent, hostName, alias) ==
    ~includes(configContent, "Host " \o hostName \o "-" \o alias)

----------------------------------------------------------------------------
(* generateSharedSSHKey *)

\* I/O steps that can throw (a FilesystemError or a failed ssh-keygen);
\* "none": every step of the invocation succeeds
Faults == {"mkdir", "keygen", "known_hosts", "append_base", "append_alias"}

FaultOrNone == Faults \cup {"none"}

\* What one invocation leaves behind: the filesystem, the exit status, the
\* error caught (or ""), whether ssh-keygen was invoked, the INFO lines
\* printed, the blocks appended to config, and the host of the clone command
\* of the success summary.
Outcome(f, exit, error, keygen, info, appended, cloneHost) ==
    [fs |-> f, exit |-> exit, error |-> error, keygen |-> keygen,
     info |-> info, appended |-> appended, cloneHost |-> cloneHost]

\* The body of the try block once alias, provider and hostName are known.
\* The result gives the outcome for each step that may throw in this
\* invocation: a throw at a step the invocation skips changes nothing, a
\* throw at a step it performs goes to the catch block (exit 1) with the
\* filesystem as the earlier steps left it.
provisionSteps(plat, f, alias, providerNormalized, hostName) ==
    LET keyPath  == privateKeyPath(plat, providerNormalized, alias)
        khPath   == knownHostsPath(plat)
        needDir  == ~f.dir
        f1       == IF needDir THEN mkdirSync(f) ELSE f
        i1       == IF needDir THEN <<"Created shared SSH folder">> ELSE <<>>
        needKey  == ~keyExists(f1, keyPath)
        f2       == IF needKey THEN sshKeygen(f1, keyPath, alias) ELSE f1
        i2       == IF needKey THEN Append(i1, "Generating SSH key") ELSE i1
        needKH   == ~knownHostsExists(f2)
        f3       == IF needKH THEN writeKnownHosts(f2, knownHostsContent) ELSE f2
        i3       == IF needKH THEN Append(i2, "Created known_hosts") ELSE i2
        configContent == readConfig(f3)
        base     == baseBlock(hostName, keyPath, khPath)
        als      == aliasBlock(hostName, alias, keyPath, khPath)
        needBase == baseMissing(configContent, hostName)
        f4       == IF needBase THEN appendFileSync(f3, base) ELSE f3
        i4       == IF needBase THEN Append(i3, "Added base host") ELSE i3
        a4       == IF needBase THEN <<base>> ELSE <<>>
        needAls  == aliasMissing(configContent, hostName, alias)
        f5       == IF needAls THEN appendFileSync(f4, als) ELSE f4
        i5       == IF needAls THEN Append(i4, "Added alias") ELSE i4
        a5       == IF needAls THEN Append(a4, als) ELSE a4
    IN  [fault \in FaultOrNone |->
            IF needDir /\ fault = "mkdir"
                THEN Outcome(f, 1, "mkdir", FALSE, <<>>, <<>>, "")
            ELSE IF needKey /\ fault = "keygen"
                THEN Outcome(f1, 1, "keygen", TRUE, i2, <<>>, "")
            ELSE IF needKH /\ fault = "known_hosts"
                THEN Outcome(f2, 1, "known_hosts", needKey, i2, <<>>, "")
            ELSE IF needBase /\ fault = "append_base"
                THEN Outcome(f3, 1, "append_base", needKey, i3, <<>>, "")
            ELSE IF needAls /\ fault = "append_alias"
                THEN Outcome(f4, 1, "append_alias", needKey, i4, a4, "")
            ELSE Outcome(f5, 0, "", needKey, i5, a5, hostName \o "-" \o alias)]

\* generateSharedSSHKey(aliasArg, providerArg), by the step that throws
generateSharedSSHKey(plat, f, argv) ==
    LET alias    == ArgAt(argv, 1)
        provider == ArgAt(argv, 2)
    IN  IF Falsy(alias) \/ Falsy(provider)
            THEN [fault \in FaultOrNone |->
                     Outcome(f, 1, "usage", FALSE, <<>>, <<>>, "")]
        ELSE LET providerNormalized == toLowerCase(provider[1])
                 hostName == hostMapLookup(providerNormalized)
             IN  IF hostName = <<>>
                     THEN [fault \in FaultOrNone |->
                              Outcome(f, 1, "Invalid provider. Use github or bitbucket.",
                                      FALSE, <<>>, <<>>, "")]
                 ELSE provisionSteps(plat, f, alias[1], providerNormalized,
                                     hostName[1])

----------------------------------------------------------------------------
(* State machine: a sequence of invocations on one machine *)

\* A filesystem the tool may find: nothing yet, or a shared directory that an
\* administrator set up by hand with a github.com stanza and a known_hosts
HandWritten ==
    [dir |-> TRUE, keys |-> <<>>,
     knownHosts |-> <<[content |-> "example.org ssh-ed25519 AAAAC3Nza\n", mode |-> "0o644"]>>,
     config |-> <<"Host github.com\n    User git\n">>]

\* ... or a shared directory into which the key pair of (foo, github) was
\* copied, with no known_hosts and no config yet
KeyInPlace(plat) ==
    sshKeygen(mkdirSync(NoFiles), privateKeyPath(plat, "github", "foo"), "foo")

InitialFilesystems(plat) == {NoFiles, HandWritten, KeyInPlace(plat)}

\* the two invocations of the concurrent specification
Procs == {1, 2}

\* an invocation's locals: its position in generateSharedSSHKey, its argv, the
\* config text it read, the blocks it appended and its exit status (-1: none)
Idle == [pc |-> "idle", argv |-> <<>>, configContent |-> "",
         appended |-> <<>>, exit |-> -1]

NoRun == [argv |-> <<>>, fault |-> "none", exit |-> 0, error |-> "", keygen |-> FALSE,
          info |-> <<>>, appended |-> <<>>, cloneHost |-> "",
          repeat |-> FALSE, retryOf |-> "none"]

Init ==
    /\ platform \in Platforms
    /\ fs \in InitialFilesystems(platform)
    /\ fs0 = fs
    /\ before = fs
    /\ last = NoRun
    /\ provisioned = <<>>
    /\ runs = 0
    /\ procs = [p \in Procs |-> Idle]

\* the (alias, normalized provider) pair of an argv with both arguments
PairOf(argv) == <<argv[1], toLowerCase(argv[2])>>

\* whether this invocation repeats the pair of the run just before it, that
\* run having exited 0
Repeats(argv) ==
    /\ runs > 0 /\ last.exit = 0
    /\ Len(argv) = 2 /\ Len(last.argv) = 2
    /\ PairOf(argv) = PairOf(last.argv)

\* the step that threw in the run just before this one, when this invocation
\* is that command run again; "none" otherwise
RetryOf(argv) ==
    IF runs > 0 /\ last.error \in Faults /\ argv = last.argv
    THEN last.error ELSE "none"

\* one invocation of the script, with the step that throws in it
Run(argv, fault, r, bound) ==
    /\ runs < bound
    /\ fault # "none" => r.error = fault
    /\ fs' = r.fs
    /\ before' = fs
    /\ last' = [argv |-> argv, fault |-> fault, exit |-> r.exit, error |-> r.error,
                keygen |-> r.keygen, info |-> r.info, appended |-> r.appended,
                cloneHost |-> r.cloneHost,
                repeat |-> Repeats(argv), retryOf |-> RetryOf(argv)]
    /\ provisioned' =
           IF r.exit = 0 /\ \A i \in 1..Len(provisioned) : provisioned[i] # PairOf(argv)
           THEN Append(provisioned, PairOf(argv)) ELSE provisioned
    /\ runs' = runs + 1
    /\ UNCHANGED <<platform, fs0, procs>>

\* node sshkey.js <argv>, every I/O step succeeding
Invoke(bound) ==
    \E argv \in Argvs :
        Run(argv, "none", generateSharedSSHKey(platform, fs, argv)["none"], bound)

\* node sshkey.js <argv>, one I/O step throwing
InvokeIOError(bound) ==
    \E argv \in Argvs :
        LET outcomes == generateSharedSSHKey(platform, fs, argv)
        IN  \E fault \in Faults : Run(argv, fault, outcomes[fault], bound)

Next == Invoke(MaxRuns)

Spec == Init /\ [][Next]_vars

NextIO == Invoke(MaxRunsIO) \/ InvokeIOError(MaxRunsIO)

SpecIO == Init /\ [][NextIO]_vars

----------------------------------------------------------------------------
(* Two invocations at once on one shared directory, interleaved at the      *)
(* granularity of the file operations of generateSharedSSHKey               *)

ConcurrentArgvs ==
    {<<"foo", "github">>, <<"foobar", "github">>, <<"ci", "BitBucket">>,
     <<"foo", "gitlab">>, <<"foo">>}

InitConc ==
    /\ platform \in Platforms
    /\ fs \in InitialFilesystems(platform)
    /\ fs0 = fs
    /\ before = fs
    /\ last = NoRun
    /\ provisioned = <<>>
    /\ runs = 0
    /\ procs \in [Procs -> {[Idle EXCEPT !.pc = "start", !.argv = argv] :
                              argv \in ConcurrentArgvs}]

seqVars == <<platform, fs0, before, last, provisioned, runs>>

\* locals of invocation p once its arguments passed the checks
aliasOf(p) == procs[p].argv[1]

providerNormalizedOf(p) == toLowerCase(procs[p].argv[2])

hostNameOf(p) == hostMapLookup(providerNormalizedOf(p))[1]

keyPathOf(p) == privateKeyPath(platform, providerNormalizedOf(p), aliasOf(p))

goto(p, pc) == procs' = [procs EXCEPT ![p].pc = pc]

\* the argument and provider checks: no file operation
CheckArguments(p) ==
    /\ procs[p].pc = "start"
    /\ LET alias    == ArgAt(procs[p].argv, 1)
           provider == ArgAt(procs[p].argv, 2)
       IN  IF Falsy(alias) \/ Falsy(provider)
               THEN procs' = [procs EXCEPT ![p].pc = "exited", ![p].exit = 1]
           ELSE IF hostMapLookup(toLowerCase(provider[1])) = <<>>
               THEN procs' = [procs EXCEPT ![p].pc = "exited", ![p].exit = 1]
           ELSE goto(p, "existsDir")
    /\ UNCHANGED <<fs, seqVars>>

\* if (!fs.existsSync(sharedSSHDir))
ExistsDir(p) ==
    /\ procs[p].pc = "existsDir"
    /\ goto(p, IF fs.dir THEN "existsKey" ELSE "mkdir")
    /\ UNCHANGED <<fs, seqVars>>

Mkdir(p) ==
    /\ procs[p].pc = "mkdir"
    /\ fs' = mkdirSync(fs)
    /\ goto(p, "existsKey")
    /\ UNCHANGED seqVars

\* if (!fs.existsSync(privateKeyPath))
ExistsKey(p) ==
    /\ procs[p].pc = "existsKey"
    /\ goto(p, IF keyExists(fs, keyPathOf(p)) THEN "existsKnownHosts" ELSE "keygen")
    /\ UNCHANGED <<fs, seqVars>>

\* execSync(ssh-keygen ...): when the other invocation wrote the key file in
\* between, ssh-keygen asks whether to overwrite it; the answer on the
\* inherited terminal overwrites the key or ends ssh-keygen with a failure
Keygen(p) ==
    /\ procs[p].pc = "keygen"
    /\ \/ /\ fs' = sshKeygen(fs, keyPathOf(p), aliasOf(p))
          /\ goto(p, "existsKnownHosts")
       \/ /\ keyExists(fs, keyPathOf(p))
          /\ procs' = [procs EXCEPT ![p].pc = "exited", ![p].exit = 1]
          /\ UNCHANGED fs
    /\ UNCHANGED seqVars

\* if (!fs.existsSync(knownHostsPath))
ExistsKnownHosts(p) ==
    /\ procs[p].pc = "existsKnownHosts"
    /\ goto(p, IF knownHostsExists(fs) THEN "existsConfig" ELSE "writeKnownHosts")
    /\ UNCHANGED <<fs, seqVars>>

WriteKnownHosts(p) ==
    /\ procs[p].pc = "writeKnownHosts"
    /\ fs' = writeKnownHosts(fs, knownHostsContent)
    /\ goto(p, "existsConfig")
    /\ UNCHANGED seqVars

\* if (fs.existsSync(configPath))
ExistsConfig(p) ==
    /\ procs[p].pc = "existsConfig"
    /\ goto(p, IF fs.config # <<>> THEN "readConfig" ELSE "appendBase")
    /\ UNCHANGED <<fs, seqVars>>

\* configContent = fs.readFileSync(configPath, "utf8")
ReadConfig(p) ==
    /\ procs[p].pc = "readConfig"
    /\ procs' = [procs EXCEPT ![p].pc = "appendBase",
                              ![p].configContent = readConfig(fs)]
    /\ UNCHANGED <<fs, seqVars>>

\* if (!configContent.includes(`Host ${hostName}`)) fs.appendFileSync(configPath, baseBlock)
AppendBase(p) ==
    /\ procs[p].pc = "appendBase"
    /\ LET block == baseBlock(hostNameOf(p), keyPathOf(p), knownHostsPath(platform))
       IN  IF baseMissing(procs[p].configContent, hostNameOf(p))
           THEN /\ fs' = appendFileSync(fs, block)
                /\ procs' = [procs EXCEPT ![p].pc = "appendAlias",
                                          ![p].appended = Append(@, block)]
           ELSE /\ goto(p, "appendAlias")
                /\ UNCHANGED fs
    /\ UNCHANGED seqVars

\* if (!configContent.includes(`Host ${hostName}-${alias}`)) fs.appendFileSync(configPath, aliasBlock)
AppendAlias(p) ==
    /\ procs[p].pc = "appendAlias"
    /\ LET block == aliasBlock(hostNameOf(p), aliasOf(p), keyPathOf(p),
                               knownHostsPath(platform))
       IN  IF aliasMissing(procs[p].configContent, hostNameOf(p), aliasOf(p))
           THEN /\ fs' = appendFileSync(fs, block)
                /\ procs' = [procs EXCEPT ![p].pc = "exited", ![p].exit = 0,
                                          ![p].appended = Append(@, block)]
           ELSE /\ procs' = [procs EXCEPT ![p].pc = "exited", ![p].exit = 0]
                /\ UNCHANGED fs
    /\ UNCHANGED seqVars

NextConc ==
    \E p \in Procs :
        \/ CheckArguments(p)
        \/ ExistsDir(p)
        \/ Mkdir(p)
        \/ ExistsKey(p)
        \/ Keygen(p)
        \/ ExistsKnownHosts(p)
        \/ WriteKnownHosts(p)
        \/ ExistsConfig(p)
        \/ ReadConfig(p)
        \/ AppendBase(p)
        \/ AppendAlias(p)

SpecConc == InitConc /\ [][NextConc]_vars

----------------------------------------------------------------------------
(* Reading a config file the way the SSH client does: a stanza starts at a  *)
(* line "Host <pattern>" and runs to the next such line                     *)

\* positions at which a line "Host ..." starts
HostLineStarts(text) ==
    {i \in 1..(Len(text) - 4) :
        /\ SubSeq(text, i, i + 4) = "Host "
        /\ (i = 1 \/ SubSeq(text, i - 1, i - 1) = "\n")}

\* the position just after the line that holds position i
RECURSIVE EndOfLine(_, _)
EndOfLine(text, i) ==
    IF i > Len(text) \/ SubSeq(text, i, i) = "\n" THEN i
    ELSE EndOfLine(text, i + 1)

\* the pattern of the Host line starting at i
HostPatternAt(text, i) == SubSeq(text, i + 5, EndOfLine(text, i) - 1)

\* positions in ascending order
RECURSIVE Ascending(_)
Ascending(S) ==
    IF S = {} THEN <<>>
    ELSE LET m == CHOOSE x \in S : \A y \in S : x <= y
         IN  <<m>> \o Ascending(S \ {m})

\* the stanzas of a config text in file order, each with its Host pattern
\* and its text (the Host line and the lines up to the next Host line)
Stanzas(text) ==
    LET starts == Ascending(HostLineStarts(text))
    IN  [k \in 1..Len(starts) |->
            [pattern |-> HostPatternAt(text, starts[k]),
             text    |-> SubSeq(text, starts[k],
                                (IF k < Len(starts) THEN starts[k + 1]
                                 ELSE Len(text) + 1) - 1)]]

\* the Host patterns of a config text, in file order
HostPatterns(text) ==
    LET stanzas == Stanzas(text)
    IN  [k \in 1..Len(stanzas) |-> stanzas[k].pattern]

\* the stanzas among stanzas whose Host pattern is exactly pattern
StanzasFor(stanzas, pattern) ==
    {stanzas[k].text : k \in {j \in 1..Len(stanzas) : stanzas[j].pattern = pattern}}

\* number of stanzas among stanzas whose Host pattern is exactly pattern
CountFor(stanzas, pattern) ==
    Cardinality({j \in 1..Len(stanzas) : stanzas[j].pattern = pattern})

\* number of Host lines of a config text whose pattern is exactly pattern
StanzaCount(text, pattern) == CountFor(Stanzas(text), pattern)

\* whether only blanks lie between position i and the start of its line
RECURSIVE StartsLine(_, _)
StartsLine(text, i) ==
    \/ i = 1
    \/ SubSeq(text, i - 1, i - 1) = "\n"
    \/ SubSeq(text, i - 1, i - 1) = " " /\ StartsLine(text, i - 1)

\* the values the option keyword is given in a stanza
OptionValues(stanza, keyword) ==
    LET n == Len(keyword)
    IN  {SubSeq(stanza, i + n + 1, EndOfLine(stanza, i) - 1) :
            i \in {j \in 1..(Len(stanza) - n) :
                      /\ SubSeq(stanza, j, j + n) = keyword \o " "
                      /\ StartsLine(stanza, j)}}

\* the text of a file kept as <<>> or <<content>>
TextOf(file) == IF file = <<>> THEN "" ELSE file[1]

\* the five option lines the tool writes under a Host line
ExpectedOptions(hostName, keyPath, khPath) ==
    "    HostName " \o hostName \o "\n"
    \o "    User git\n"
    \o "    IdentityFile " \o keyPath \o "\n"
    \o "    IdentitiesOnly yes\n"
    \o "    UserKnownHostsFile " \o khPath \o "\n"
    \o "    GlobalKnownHostsFile " \o khPath \o "\n"

----------------------------------------------------------------------------
(* What the claims speak of *)

\* an argv with a non-empty alias and a provider that is github or bitbucket
\* up to letter case
ValidArgv(argv) ==
    /\ Len(argv) = 2
    /\ argv[1] # ""
    /\ toLowerCase(argv[2]) \in {"github", "bitbucket"}

\* the hostname the documentation gives for a valid provider
DocHost(argv) ==
    IF toLowerCase(argv[2]) = "github" THEN "github.com" ELSE "bitbucket.org"

\* the alias host of a valid argv
DocAliasHost(argv) == DocHost(argv) \o "-" \o argv[1]

\* the private key path of a valid argv
DocKeyPath(argv) ==
    sharedSSHDir(platform) \o (IF platform = "win32" THEN "\\" ELSE "/")
    \o "id_ed25519_" \o toLowerCase(argv[2]) \o "_" \o argv[1]

DocKnownHostsPath ==
    sharedSSHDir(platform) \o (IF platform = "win32" THEN "\\" ELSE "/")
    \o "known_hosts"

LastSucceeded == runs > 0 /\ last.exit = 0

----------------------------------------------------------------------------
(* C1: idempotence.  When a valid (alias, provider) pair is provisioned     *)
(* successfully twice in succession, the second run leaves key files,      *)
(* known_hosts and config exactly as the first left them, does not invoke  *)
(* key generation and appends no Host block.                               *)
C1_Idempotent ==
    (LastSucceeded /\ last.repeat /\ ValidArgv(last.argv)) =>
        /\ fs = before
        /\ ~last.keygen
        /\ last.appended = <<>>

C1_Witness ==
    /\ LastSucceeded /\ last.repeat /\ ValidArgv(last.argv)
    /\ DocKeyPath(last.argv) \in DOMAIN fs.keys
    /\ StanzaCount(TextOf(fs.config), DocAliasHost(last.argv)) = 1

(* C2: a provider that is neither github nor bitbucket after lower-casing  *)
(* fails with the InvalidProvider error, exit status 1, and creates        *)
(* nothing.                                                                *)
C2_InvalidProviderCreatesNothing ==
    (/\ runs > 0
     /\ Len(last.argv) = 2 /\ last.argv[1] # "" /\ last.argv[2] # ""
     /\ toLowerCase(last.argv[2]) \notin {"github", "bitbucket"}) =>
        /\ last.exit = 1
        /\ last.error = "Invalid provider. Use github or bitbucket."
        /\ fs = before

(* C3: when alias or provider is absent or empty, the run exits with       *)
(* status 1 before any filesystem interaction: the filesystem is as it was *)
(* and key generation is not invoked.                                      *)
C3_MissingArguments ==
    (/\ runs > 0
     /\ (Len(last.argv) < 2 \/ last.argv[1] = "" \/ last.argv[2] = "")) =>
        /\ last.exit = 1
        /\ fs = before
        /\ ~last.keygen
        /\ last.info = <<>> /\ last.appended = <<>>

C3_Witness ==
    /\ runs > 1
    /\ last.argv = <<"", "github">>
    /\ last.exit = 1
    /\ fs.dir /\ fs = before

(* C4: starting with no config file, one successful run for a valid pair   *)
(* leaves a config file that holds exactly two Host stanzas, first         *)
(* `Host <hostname>`, then `Host <hostname>-<alias>`, and nothing else.    *)
C4_TwoStanzasInOrder ==
    (LastSucceeded /\ ValidArgv(last.argv) /\ before.config = <<>>) =>
        /\ fs.config # <<>>
        /\ HostPatterns(fs.config[1])
             = <<DocHost(last.argv), DocAliasHost(last.argv)>>
        /\ LET opts == ExpectedOptions(DocHost(last.argv), DocKeyPath(last.argv),
                                       DocKnownHostsPath)
           IN  fs.config[1] =
                   "\nHost " \o DocHost(last.argv) \o "\n" \o opts
                   \o "\nHost " \o DocAliasHost(last.argv) \o "\n" \o opts

C4_Witness ==
    /\ LastSucceeded /\ ValidArgv(last.argv) /\ before.config = <<>>
    /\ Len(last.appended) = 2
    /\ Len(HostPatterns(TextOf(fs.config))) = 2

(* C5: when the prior config holds a line `Host <hostname>` for the        *)
(* requested provider and no stanza whose Host pattern is                  *)
(* `<hostname>-<alias>`, a successful run appends no second base block and *)
(* exactly one alias block, keeping the prior content as a prefix.         *)
C5_AliasAppendedToExistingBase ==
    (/\ LastSucceeded /\ ValidArgv(last.argv)
     /\ StanzaCount(TextOf(before.config), DocHost(last.argv)) >= 1
     /\ StanzaCount(TextOf(before.config), DocAliasHost(last.argv)) = 0) =>
        /\ Len(last.appended) = 1
        /\ HostPatterns(last.appended[1]) = <<DocAliasHost(last.argv)>>
        /\ fs.config = <<before.config[1] \o last.appended[1]>>

(* C6: known_hosts is written only when it does not exist, and then with   *)
(* both fixed fingerprint lines whichever provider was requested; when it  *)
(* exists no run changes it.                                               *)
C6_KnownHostsWrittenOnce ==
    runs > 0 =>
        /\ before.knownHosts # <<>> => fs.knownHosts = before.knownHosts
        /\ (before.knownHosts = <<>> /\ fs.knownHosts # <<>>) =>
               fs.knownHosts[1].content
                   = trustedHosts[1] \o "\n" \o trustedHosts[2] \o "\n"
        /\ last.exit = 0 => fs.knownHosts # <<>>

C6_Witness ==
    /\ runs > 1 /\ LastSucceeded /\ ValidArgv(last.argv)
    /\ toLowerCase(last.argv[2]) = "bitbucket"
    /\ fs0.knownHosts = <<>>
    /\ before.knownHosts # <<>>
    /\ fs.knownHosts = before.knownHosts
    /\ includes(fs.knownHosts[1].content, "bitbucket.org ssh-rsa ")

(* C9: after any sequence of successful runs starting from an empty shared *)
(* directory, the config holds exactly one stanza whose Host pattern is    *)
(* exactly `<hostname>-<alias>` for every valid pair that was provisioned, *)
(* so the clone host of the success summary is a configured stanza.        *)
C9_EveryAliasHasItsStanza ==
    fs0 = NoFiles =>
        LET stanzas == Stanzas(TextOf(fs.config))
        IN  \A k \in 1..Len(provisioned) :
                LET argv == provisioned[k]
                IN  ValidArgv(argv) => CountFor(stanzas, DocAliasHost(argv)) = 1

\* the first pair provisioned for a provider, as <<pair>>, or <<>>
FirstFor(provider) ==
    LET ks == {k \in 1..Len(provisioned) : provisioned[k][2] = provider}
    IN  IF ks = {} THEN <<>>
        ELSE <<provisioned[CHOOSE k \in ks : \A j \in ks : k <= j]>>

(* C10: after any sequence of successful runs starting from no config      *)
(* file, the config holds at most one base stanza `Host <hostname>` per    *)
(* provider hostname, and its IdentityFile is the private key path of the  *)
(* first alias provisioned for that provider.                              *)
C10_OneBaseStanzaPerHost ==
    fs0.config = <<>> =>
        LET stanzas == Stanzas(TextOf(fs.config))
        IN  \A provider \in {"github", "bitbucket"} :
                LET host  == DocHost(<<"", provider>>)
                    first == FirstFor(provider)
                IN  /\ CountFor(stanzas, host) <= 1
                    /\ first # <<>> =>
                          \E stanza \in StanzasFor(stanzas, host) :
                              OptionValues(stanza, "IdentityFile")
                                  = {DocKeyPath(first[1])}

C10_Witness ==
    /\ fs0.config = <<>>
    /\ \E i, j \in 1..Len(provisioned) :
          /\ i < j
          /\ provisioned[i][2] = "github" /\ provisioned[j][2] = "github"
    /\ LastSucceeded /\ ValidArgv(last.argv)
    /\ Len(last.appended) = 1
    /\ StanzaCount(TextOf(fs.config), "github.com") = 1

----------------------------------------------------------------------------
(* Runs in which an I/O step throws                                        *)

\* nothing that was there before the run is removed or rewritten
NothingUndone ==
    /\ before.dir => fs.dir
    /\ \A path \in DOMAIN before.keys :
          path \in DOMAIN fs.keys /\ fs.keys[path] = before.keys[path]
    /\ before.knownHosts # <<>> => fs.knownHosts = before.knownHosts
    /\ before.config # <<>> =>
          /\ fs.config # <<>>
          /\ SubSeq(fs.config[1], 1, Len(before.config[1])) = before.config[1]

\* the filesystem a run that threw at last.error leaves behind
PartialStateKept ==
    (runs > 0 /\ last.error \in Faults) =>
        LET keyPath == DocKeyPath(last.argv)
        IN  /\ last.exit = 1
            /\ NothingUndone
            /\ last.error = "mkdir" => fs = before /\ ~fs.dir
            /\ last.error = "keygen" =>
                  /\ fs = [before EXCEPT !.dir = TRUE]
                  /\ keyPath \notin DOMAIN fs.keys
            /\ last.error = "known_hosts" =>
                  /\ fs.dir /\ keyPath \in DOMAIN fs.keys
                  /\ fs.knownHosts = <<>>
                  /\ fs.config = before.config
            /\ last.error = "append_base" =>
                  /\ fs.dir /\ keyPath \in DOMAIN fs.keys
                  /\ fs.knownHosts # <<>>
                  /\ fs.config = before.config
            /\ last.error = "append_alias" =>
                  /\ fs.dir /\ keyPath \in DOMAIN fs.keys
                  /\ fs.knownHosts # <<>>
                  /\ \/ last.appended = <<>> /\ fs.config = before.config
                     \/ /\ Len(last.appended) = 1
                        /\ fs.config = <<TextOf(before.config) \o last.appended[1]>>
                        /\ ValidArgv(last.argv) =>
                              HostPatterns(last.appended[1]) = <<DocHost(last.argv)>>

\* a successful re-run of the command whose last run threw ends where an
\* uninterrupted run from the state before the failed run ends
RetryRecovers ==
    (last'.retryOf \in Faults /\ last'.exit = 0) =>
        fs' = generateSharedSSHKey(platform, before, last.argv)["none"].fs

(* C7: no rollback, recovery by re-run.  When a step of a run throws, what *)
(* the earlier steps of that run created remains and nothing of a later    *)
(* step is written; the same command run again successfully then leaves    *)
(* the filesystem that one uninterrupted successful run would have left    *)
(* from the state the failed run started in.                               *)
C7_NoRollbackRecoveryByRerun ==
    []PartialStateKept /\ [][RetryRecovers]_vars

C7_Witness ==
    /\ runs > 1
    /\ last.retryOf = "append_alias" /\ last.exit = 0
    /\ ValidArgv(last.argv)
    /\ Len(last.appended) = 1
    /\ HostPatterns(TextOf(fs.config)) = <<DocHost(last.argv), DocAliasHost(last.argv)>>
    /\ fs0 = NoFiles

----------------------------------------------------------------------------
(* Appends of two invocations at once                                      *)

RECURSIVE TotalLen(_)
TotalLen(blocks) ==
    IF blocks = <<>> THEN 0 ELSE Len(Head(blocks)) + TotalLen(Tail(blocks))

\* a block some invocation appended is not in the config file
LostUpdate ==
    \E p \in Procs : \E k \in 1..Len(procs[p].appended) :
        ~includes(TextOf(fs.config), procs[p].appended[k])

(* C8, as it holds of the code: two invocations at once on the same       *)
(* config file never lose an appended block.  appendFileSync only adds at  *)
(* the end of the file, so the config is what the invocations found plus   *)
(* every block either of them appended; what the race does produce is the  *)
(* same base block twice (C8_Witness).                                     *)
C8_AppendsNeverLost ==
    /\ ~LostUpdate
    /\ SubSeq(TextOf(fs.config), 1, Len(TextOf(fs0.config))) = TextOf(fs0.config)
    /\ Len(TextOf(fs.config)) =
           Len(TextOf(fs0.config)) + TotalLen(procs[1].appended)
           + TotalLen(procs[2].appended)

\* both invocations ran to the end and both appended a base block for the
\* same host: each read the config before the other appended to it
Raced ==
    /\ \A p \in Procs : procs[p].pc = "exited" /\ procs[p].exit = 0
    /\ hostNameOf(1) = hostNameOf(2)
    /\ \A p \in Procs :
          /\ Len(procs[p].appended) = 2
          /\ HostPatterns(procs[p].appended[1]) = <<hostNameOf(p)>>

C8_Witness ==
    /\ Raced
    /\ procs[1].argv = <<"foo", "github">> /\ procs[2].argv = <<"foobar", "github">>
    /\ StanzaCount(TextOf(fs.config), "github.com") = 2
    /\ StanzaCount(TextOf(fs.config), "github.com-foo") = 1
    /\ StanzaCount(TextOf(fs.config), "github.com-foobar") = 1

(* C8 as the specification states it: invocations that race on the config *)
(* file lose an update, a Host block that one of them appended being       *)
(* missing from the final config file.                                     *)
C8_RaceLosesAnAppendedBlock == Raced => LostUpdate

====
